---- MODULE Spec2Model ----
(***************************************************************************)
(* LoginForm (src/react/forms/LoginForm.tsx) and SignupForm                *)
(* (src/unnamed/part_000): the validators, the component state held in     *)
(* useState hooks, and handleSubmit with each of its await points as a     *)
(* separate continuation step.                                             *)
(*                                                                         *)
(* Field values are sequences of one-character strings, so that            *)
(* String.includes and String.length are computed, not assumed.           *)
(* An optional JavaScript value (undefined / null versus present) is a     *)
(* sequence of length at most one: << >> is absent, <<v>> is present.      *)
(***************************************************************************)
EXTENDS Naturals, Sequences, FiniteSets

VARIABLES
    form,            \* which component is mounted: "login" or "signup"
    onSuccess,       \* TRUE iff the onSuccess prop was supplied
    email,           \* useState('')    LoginForm.tsx:56, part_000:53
    password,        \* useState('')    LoginForm.tsx:57, part_000:54
    loading,         \* useState(false) LoginForm.tsx:58, part_000:55
    error,           \* useState('')    LoginForm.tsx:59, part_000:56
    fieldErrors,     \* useState({})    LoginForm.tsx:60, part_000:57
    calls,           \* every adapter call issued so far, in order of issue
    onSuccessCalls,  \* number of times the onSuccess callback was invoked
    hrefs,           \* the values assigned to window.location.href, in order
    last             \* the handler or continuation that ran last, the call it
                     \* belongs to and the value its await resolved with

vars == <<form, onSuccess, email, password, loading, error, fieldErrors,
          calls, onSuccessCalls, hrefs, last>>

----------------------------------------------------------------------------
(* Bounds of the model *)

MaxCalls == 2
MaxEmailLen == 2
MaxPasswordLen == 9

(* Program constants *)

MinPasswordLength == 8

----------------------------------------------------------------------------
(* Optional values and JavaScript truthiness of an optional string *)

None == << >>
Some(v) == <<v>>

Truthy(opt) == opt # None /\ opt[1] # ""

(* s.includes(ch) for a one-character ch *)
Includes(s, ch) == \E i \in 1..Len(s) : s[i] = ch

----------------------------------------------------------------------------
(* Validators *)

(* Variant: rejects only an email that lacks both "@" and "." *)
validateEmailLacksBoth(e) ==
    IF Len(e) = 0 THEN "Email is required"
    ELSE IF ~Includes(e, "@") /\ ~Includes(e, ".") THEN "Invalid email format"
    ELSE ""

validateEmail(e) ==
    IF Len(e) = 0 THEN "Email is required"
    ELSE IF ~Includes(e, "@") \/ ~Includes(e, ".") THEN "Invalid email format"
    ELSE ""

LoginValidatePassword(p) ==
    IF Len(p) = 0 THEN "Password is required"
    ELSE ""

SignupValidatePassword(p) ==
    IF Len(p) = 0 THEN "Password is required"
    ELSE IF Len(p) < MinPasswordLength THEN "Password must be at least 8 characters"
    ELSE ""

validatePassword(p) ==
    IF form = "login" THEN LoginValidatePassword(p) ELSE SignupValidatePassword(p)

----------------------------------------------------------------------------
(* Props defaults and the messages the handlers write *)

DefaultPath == IF form = "login" THEN "/" ELSE "/login"

LoginFailedMessage == "Invalid email or password"
SignupFallbackMessage == "Signup failed"
SignupCatchMessage == "Something went wrong"

----------------------------------------------------------------------------
(* Input domains *)

Forms == {"login", "signup"}

EmailInputs ==
    { << >>,
      <<"b", "a", "d">>,
      <<"a", "@", "b", ".", "c", "o", "m">> }

PasswordInputs ==
    { << >>,
      <<"s", "h", "o", "r", "t">>,
      <<"l", "o", "n", "g", "e", "n", "o", "u", "g", "h", "1">> }

EmailAlphabet == {"a", "@", "."}
AllEmails == UNION { [1..n -> EmailAlphabet] : n \in 0..MaxEmailLen }
AllPasswords == UNION { [1..n -> {"x"}] : n \in 0..MaxPasswordLen }

(* What signIn may resolve to: undefined, or an object whose error is absent or set *)
SignInResults ==
    { None, Some([error |-> None]), Some([error |-> Some("CredentialsSignin")]) }

(* What response.json() may resolve to: null, or an object whose error field is
   absent, empty or a message *)
JsonBodies ==
    { None, Some([error |-> None]), Some([error |-> Some("")]),
      Some([error |-> Some("Email already in use")]) }

----------------------------------------------------------------------------
(* Initial state: the component as mounted *)

Mounted ==
    /\ form \in Forms
    /\ onSuccess \in BOOLEAN
    /\ loading = FALSE
    /\ error = ""
    /\ fieldErrors = [f \in {} |-> ""]
    /\ calls = << >>
    /\ onSuccessCalls = 0
    /\ hrefs = << >>
    /\ last = [op |-> "mount", call |-> 0, reply |-> None]

Init ==
    /\ Mounted
    /\ email = << >>
    /\ password = << >>

(* The component with field values already typed in *)
InitFields ==
    /\ Mounted
    /\ email \in AllEmails
    /\ password \in AllPasswords

----------------------------------------------------------------------------
(* onChange handlers *)

SetEmail(v) ==
    /\ email' = v
    /\ last' = [op |-> "setEmail", call |-> 0, reply |-> None]
    /\ UNCHANGED <<form, onSuccess, password, loading, error, fieldErrors,
                   calls, onSuccessCalls, hrefs>>

SetPassword(v) ==
    /\ password' = v
    /\ last' = [op |-> "setPassword", call |-> 0, reply |-> None]
    /\ UNCHANGED <<form, onSuccess, email, loading, error, fieldErrors,
                   calls, onSuccessCalls, hrefs>>

----------------------------------------------------------------------------
(* handleSubmit up to its first await *)

(* Variant: fail-fast, only the first failing field is recorded *)
RejectSubmissionFailFast(emailError, passwordError) ==
    /\ fieldErrors' = IF emailError # ""
                      THEN [email |-> emailError, password |-> ""]
                      ELSE [email |-> "", password |-> passwordError]
    /\ last' = [op |-> "submitInvalid", call |-> 0, reply |-> None]
    /\ UNCHANGED <<email, password, loading, error, calls>>

(* Variant: a failed validation also clears the top-level error *)
RejectSubmissionClearsError(emailError, passwordError) ==
    /\ fieldErrors' = [email |-> emailError, password |-> passwordError]
    /\ error' = ""
    /\ last' = [op |-> "submitInvalid", call |-> 0, reply |-> None]
    /\ UNCHANGED <<email, password, loading, calls>>

(* if (emailError || passwordError) { setFieldErrors(...); return; } *)
RejectSubmission(emailError, passwordError) ==
    /\ fieldErrors' = [email |-> emailError, password |-> passwordError]
    /\ last' = [op |-> "submitInvalid", call |-> 0, reply |-> None]
    /\ UNCHANGED <<email, password, loading, error, calls>>

(* Variant: the submission begins without setError('') *)
BeginSubmissionKeepsError ==
    /\ Len(calls) < MaxCalls
    /\ loading' = TRUE
    /\ calls' = Append(calls, [email |-> email, password |-> password,
                               phase |-> "pending", outcome |-> "none"])
    /\ last' = [op |-> "submitValid", call |-> Len(calls) + 1, reply |-> None]
    /\ UNCHANGED <<email, password, fieldErrors, error>>

(* setLoading(true); setError(''); then the adapter call is issued.  The model
   stops issuing calls once MaxCalls have been issued. *)
BeginSubmission ==
    /\ Len(calls) < MaxCalls
    /\ loading' = TRUE
    /\ error' = ""
    /\ calls' = Append(calls, [email |-> email, password |-> password,
                               phase |-> "pending", outcome |-> "none"])
    /\ last' = [op |-> "submitValid", call |-> Len(calls) + 1, reply |-> None]
    /\ UNCHANGED <<email, password, fieldErrors>>

HandleSubmit ==
    LET emailError == validateEmail(email)
        passwordError == validatePassword(password)
    IN  /\ IF emailError # "" \/ passwordError # ""
           THEN RejectSubmission(emailError, passwordError)
           ELSE BeginSubmission
        /\ UNCHANGED <<form, onSuccess, onSuccessCalls, hrefs>>

(* Variant: the button is never disabled *)
SubmitAlwaysEnabled == TRUE

(* <button type="submit" disabled={loading}> *)
SubmitEnabled == ~loading

(* A click on the submit button *)
ClickSubmit ==
    /\ SubmitEnabled
    /\ HandleSubmit

(* A submit event dispatched by script (form.requestSubmit()), which does not
   pass through the button *)
RequestSubmit == HandleSubmit

----------------------------------------------------------------------------
(* Continuations of handleSubmit *)

Pending(i) == i \in DOMAIN calls /\ calls[i].phase = "pending"
AwaitingBody(i) == i \in DOMAIN calls /\ calls[i].phase = "body"

Settle(i, outcome) ==
    calls' = [calls EXCEPT ![i] = [@ EXCEPT !.phase = "settled",
                                            !.outcome = outcome]]

(* if (onSuccess) onSuccess(); else window.location.href = <default path> *)
SuccessAction ==
    IF onSuccess
    THEN /\ onSuccessCalls' = onSuccessCalls + 1
         /\ UNCHANGED hrefs
    ELSE /\ hrefs' = Append(hrefs, DefaultPath)
         /\ UNCHANGED onSuccessCalls

(* result?.error *)
ResultError(result) == IF result = None THEN None ELSE result[1].error

(* LoginForm: signIn resolved with result *)
LoginAfterSignIn(result) ==
    IF Truthy(ResultError(result))
    THEN /\ error' = LoginFailedMessage
         /\ loading' = FALSE
         /\ UNCHANGED <<onSuccessCalls, hrefs>>
    ELSE /\ SuccessAction
         /\ UNCHANGED <<error, loading>>

SignInResolves(i, result) ==
    /\ form = "login"
    /\ Pending(i)
    /\ Settle(i, IF Truthy(ResultError(result)) THEN "error" ELSE "success")
    /\ LoginAfterSignIn(result)
    /\ last' = [op |-> "signInResolved", call |-> i, reply |-> result]
    /\ UNCHANGED <<form, onSuccess, email, password, fieldErrors>>

(* LoginForm: signIn rejected; handleSubmit has no try/catch, so the rejection
   leaves handleSubmit and no state setter runs *)
LoginAfterSignInThrows == UNCHANGED <<error, loading>>

SignInThrows(i) ==
    /\ form = "login"
    /\ Pending(i)
    /\ Settle(i, "thrown")
    /\ LoginAfterSignInThrows
    /\ last' = [op |-> "signInThrew", call |-> i, reply |-> None]
    /\ UNCHANGED <<form, onSuccess, email, password, fieldErrors,
                   onSuccessCalls, hrefs>>

(* SignupForm: response.ok; the success action runs inside the try block, so an
   exception thrown by the onSuccess callback reaches the catch clause; the
   finally clause runs in the same continuation *)
SignupAfterOk(throws) ==
    /\ SuccessAction
    /\ error' = IF throws THEN SignupCatchMessage ELSE error
    /\ loading' = FALSE

FetchResolvesOk(i) ==
    /\ form = "signup"
    /\ Pending(i)
    /\ Settle(i, "success")
    /\ \E throws \in (IF onSuccess THEN BOOLEAN ELSE {FALSE}) : SignupAfterOk(throws)
    /\ last' = [op |-> "fetchOk", call |-> i, reply |-> None]
    /\ UNCHANGED <<form, onSuccess, email, password, fieldErrors>>

(* SignupForm: !response.ok; handleSubmit awaits response.json() *)
FetchResolvesNotOk(i) ==
    /\ form = "signup"
    /\ Pending(i)
    /\ calls' = [calls EXCEPT ![i] = [@ EXCEPT !.phase = "body"]]
    /\ last' = [op |-> "fetchNotOk", call |-> i, reply |-> None]
    /\ UNCHANGED <<form, onSuccess, email, password, loading, error, fieldErrors,
                   onSuccessCalls, hrefs>>

(* catch (err) { setError('Something went wrong') } finally { setLoading(false) } *)
SignupCatch ==
    /\ error' = SignupCatchMessage
    /\ loading' = FALSE

(* SignupForm: fetch rejected *)
FetchRejects(i) ==
    /\ form = "signup"
    /\ Pending(i)
    /\ Settle(i, "thrown")
    /\ SignupCatch
    /\ last' = [op |-> "fetchRejected", call |-> i, reply |-> None]
    /\ UNCHANGED <<form, onSuccess, email, password, fieldErrors,
                   onSuccessCalls, hrefs>>

(* Variant: the message of the response body is ignored *)
SignupAfterJsonGeneric(data) ==
    IF data = None
    THEN SignupCatch
    ELSE /\ error' = SignupFallbackMessage
         /\ loading' = FALSE

(* setError(data.error || 'Signup failed'); reading data.error of null throws *)
SignupAfterJson(data) ==
    IF data = None
    THEN SignupCatch
    ELSE /\ error' = IF Truthy(data[1].error) THEN data[1].error[1]
                     ELSE SignupFallbackMessage
         /\ loading' = FALSE

(* SignupForm: response.json() resolved with data *)
JsonResolves(i, data) ==
    /\ form = "signup"
    /\ AwaitingBody(i)
    /\ Settle(i, "error")
    /\ SignupAfterJson(data)
    /\ last' = [op |-> "jsonResolved", call |-> i, reply |-> data]
    /\ UNCHANGED <<form, onSuccess, email, password, fieldErrors,
                   onSuccessCalls, hrefs>>

(* SignupForm: response.json() rejected (the body is not JSON) *)
JsonRejects(i) ==
    /\ form = "signup"
    /\ AwaitingBody(i)
    /\ Settle(i, "unparseable")
    /\ SignupCatch
    /\ last' = [op |-> "jsonRejected", call |-> i, reply |-> None]
    /\ UNCHANGED <<form, onSuccess, email, password, fieldErrors,
                   onSuccessCalls, hrefs>>

----------------------------------------------------------------------------
(* Specifications *)

CallIds == 1..MaxCalls

Resolve ==
    \/ \E i \in CallIds, r \in SignInResults : SignInResolves(i, r)
    \/ \E i \in CallIds : SignInThrows(i)
    \/ \E i \in CallIds : FetchResolvesOk(i)
    \/ \E i \in CallIds : FetchResolvesNotOk(i)
    \/ \E i \in CallIds : FetchRejects(i)
    \/ \E i \in CallIds, d \in JsonBodies : JsonResolves(i, d)
    \/ \E i \in CallIds : JsonRejects(i)

Edit ==
    \/ \E v \in EmailInputs : SetEmail(v)
    \/ \E v \in PasswordInputs : SetPassword(v)

(* Submit only through the button *)
Next == Edit \/ ClickSubmit \/ Resolve

Spec == Init /\ [][Next]_vars

(* Submit through the button or by script *)
NextReentrant == Edit \/ ClickSubmit \/ RequestSubmit \/ Resolve

SpecReentrant == Init /\ [][NextReentrant]_vars

(* Every field value up to the length bounds, submitted through the button *)
NextFields == ClickSubmit \/ Resolve

SpecFields == InitFields /\ [][NextFields]_vars

----------------------------------------------------------------------------
(* Properties *)

(* The adapter calls issued and not yet resolved.  For signup the adapter's
   work includes reading the response body, so a call awaiting
   response.json() is still in flight. *)
InFlight == { i \in DOMAIN calls : calls[i].phase # "settled" }

Succeeded == { i \in DOMAIN calls : calls[i].outcome = "success" }

IsSubmitStep == last'.op \in {"submitInvalid", "submitValid"}

AdapterSucceeded ==
    \/ last.op = "fetchOk"
    \/ last.op = "signInResolved" /\ calls[last.call].outcome = "success"

AdapterFailed ==
    \/ last.op \in {"signInThrew", "fetchRejected", "jsonResolved", "jsonRejected"}
    \/ last.op = "signInResolved" /\ calls[last.call].outcome = "error"

(* C1: in every reachable state loading is true if and only if an adapter call
   has been issued by handleSubmit and has not yet resolved. *)
C1_LoadingIffInFlight == loading <=> (InFlight # {})

(* C2: whenever an adapter call is in flight, fieldErrors holds no message left
   over from an earlier failed validation pass. *)
C2_NoStaleFieldErrors ==
    (InFlight # {}) => \A f \in DOMAIN fieldErrors : fieldErrors[f] = ""

(* C3: whenever the adapter reports failure, as an error payload or as a thrown
   exception, the top-level error is non-empty and the in-progress flag is
   cleared, so that the submit button accepts a new attempt. *)
C3_FailureReported ==
    AdapterFailed => (error # "" /\ ~loading /\ SubmitEnabled)

(* C4: a submit in which any validator returns a non-empty message records the
   messages of both fields in the same step and does not invoke the adapter;
   email "bad" with an empty password gives {email: "Invalid email format",
   password: "Password is required"}. *)
C4_InvalidRecordsAll ==
    [][ (IsSubmitStep /\ (validateEmail(email) # "" \/ validatePassword(password) # ""))
        => /\ fieldErrors' = [email |-> validateEmail(email),
                               password |-> validatePassword(password)]
           /\ calls' = calls
           /\ (email = <<"b", "a", "d">> /\ password = << >>
                 => fieldErrors' = [email |-> "Invalid email format",
                                    password |-> "Password is required"]) ]_vars

C4_Witness ==
    /\ last.op = "submitInvalid"
    /\ email = <<"b", "a", "d">>
    /\ password = << >>
    /\ fieldErrors = [email |-> "Invalid email format",
                      password |-> "Password is required"]
    /\ calls = << >>

(* C5: after each adapter success the success action has fired exactly once per
   successful attempt, as the onSuccess callback if supplied and otherwise as
   navigation to the default path, and the top-level error is the empty
   string. *)
C5_SuccessOnceNoError ==
    AdapterSucceeded =>
        /\ onSuccessCalls + Len(hrefs) = Cardinality(Succeeded)
        /\ (onSuccess => hrefs = << >>)
        /\ (~onSuccess => onSuccessCalls = 0
                          /\ \A k \in DOMAIN hrefs :
                                hrefs[k] = (IF form = "login" THEN "/" ELSE "/login"))
        /\ error = ""

(* C6 as stated: on adapter failure the top-level error is the adapter's
   message verbatim when present, and one fallback string when the signup
   response body has no error field or cannot be parsed. *)
C6_SingleFallback ==
    /\ (last.op = "signInResolved" /\ calls[last.call].outcome = "error")
          => error = "Invalid email or password"
    /\ (last.op = "jsonResolved" /\ last.reply # None /\ Truthy(last.reply[1].error))
          => error = last.reply[1].error[1]
    /\ (last.op = "jsonResolved" /\ last.reply # None /\ last.reply[1].error = None)
          => error = "Signup failed"
    /\ last.op = "jsonRejected" => error = "Signup failed"

(* C6 amended: on adapter failure the top-level error is the adapter's message
   verbatim when present (login: "Invalid email or password"; signup: the
   non-empty error field of the body); it is "Signup failed" when the body
   parses to an object whose error field is absent or empty; and it is
   "Something went wrong" when the body cannot be parsed or parses to null. *)
C6_FailureMessage ==
    /\ (last.op = "signInResolved" /\ calls[last.call].outcome = "error")
          => error = "Invalid email or password"
    /\ (last.op = "jsonResolved" /\ last.reply # None /\ Truthy(last.reply[1].error))
          => error = last.reply[1].error[1]
    /\ (last.op = "jsonResolved" /\ last.reply # None /\ ~Truthy(last.reply[1].error))
          => error = "Signup failed"
    /\ (last.op = "jsonResolved" /\ last.reply = None) => error = "Something went wrong"
    /\ last.op = "jsonRejected" => error = "Something went wrong"

C6_Witness ==
    /\ last.op = "jsonResolved"
    /\ last.reply = Some([error |-> Some("Email already in use")])
    /\ error = "Email already in use"

(* C7: when submit is triggered only through the button, at most one adapter
   call is in flight at any time. *)
C7_AtMostOneInFlight == Cardinality(InFlight) <= 1

C7_Witness ==
    /\ Len(calls) = 2
    /\ calls[1].phase = "settled"
    /\ calls[2].phase = "pending"

(* The field values pass validation, as the claim states it *)
C8_FieldsPass ==
    /\ Len(email) > 0
    /\ \E i \in DOMAIN email : email[i] = "@"
    /\ \E i \in DOMAIN email : email[i] = "."
    /\ (form = "login" => Len(password) > 0)
    /\ (form = "signup" => Len(password) >= 8)

(* C8: a submit invokes the adapter if and only if the email is non-empty and
   contains both "@" and "." and the password is non-empty (login) or has
   length >= 8 (signup); the adapter is called with exactly the email and
   password held at submit time. *)
C8_AdapterIffValid ==
    [][ IsSubmitStep
        => /\ (calls' # calls) <=> C8_FieldsPass
           /\ (calls' # calls)
                => /\ Len(calls') = Len(calls) + 1
                   /\ SubSeq(calls', 1, Len(calls)) = calls
                   /\ calls'[Len(calls')].email = email
                   /\ calls'[Len(calls')].password = password ]_vars

C8_Witness ==
    /\ form = "signup"
    /\ last.op = "submitValid"
    /\ Len(password) = 8
    /\ calls[last.call].email = email
    /\ calls[last.call].password = password

(* C9: a submit that fails local validation changes only fieldErrors: the
   top-level error, the in-progress flag, the field values and the adapter
   calls are as before. *)
C9_InvalidChangesOnlyFieldErrors ==
    [][ (IsSubmitStep /\ (validateEmail(email) # "" \/ validatePassword(password) # ""))
        => /\ error' = error
           /\ loading' = loading
           /\ email' = email
           /\ password' = password
           /\ calls' = calls
           /\ onSuccessCalls' = onSuccessCalls
           /\ hrefs' = hrefs ]_vars

C9_Witness ==
    /\ last.op = "submitInvalid"
    /\ error # ""
    /\ \E f \in DOMAIN fieldErrors : fieldErrors[f] # ""

(* C10: with overlapping submissions resolving in any order, whenever loading
   is true the top-level error is empty; a non-empty error is only written in
   a step that leaves loading false, and a step that begins a submission
   leaves loading true and the error empty. *)
C10_LoadingImpliesNoError ==
    /\ [](loading => error = "")
    /\ [][ /\ (error' # error /\ error' # "") => ~loading'
           /\ (last'.op = "submitValid") => (loading' /\ error' = "") ]_vars

C10_Witness ==
    /\ Len(calls) = 2
    /\ calls[1].phase = "pending"
    /\ calls[2].outcome = "error"
    /\ error # ""
    /\ ~loading

====
